---- MODULE Spec2Model ----
(***************************************************************************)
(* Model of packages/package-manager/src/PnpmPackageManager.ts:            *)
(* the PnpmStdoutTransform line filter, the module-level RegExp it tests   *)
(* lines with, and the PnpmPackageManager facade that spawns pnpm.         *)
(*                                                                         *)
(* A line is a sequence of one-character strings (UTF-16 code units);      *)
(* "ESC" stands for the single code unit U+001B.  String indices follow    *)
(* JavaScript: index k of a line is line[k+1].                             *)
(***************************************************************************)
EXTENDS Integers, Sequences, FiniteSets, TLC

VARIABLES
    lastIndex,   \* startPnpmPeerDependencyWarningPattern.lastIndex (module level, 'g' flag)
    filters,     \* the PnpmStdoutTransform instances created so far
    facade,      \* the PnpmPackageManager instance: constructor inputs and this.options
    calls,       \* the facade operations invoked so far, with their progress
    spawned,     \* the calls made to this.spawner, in order
    logged,      \* the calls made to this.log, in order
    events,      \* the order of Logger calls and spawner calls
    stdout,      \* what was written to the parent's real stdout
    fs           \* the paths that exist on the file system

vars == <<lastIndex, filters, facade, calls, spawned, logged, events, stdout, fs>>

facadeVars == <<facade, calls, spawned, logged, events, stdout, fs>>

(***************************************************************************)
(* Bounds                                                                  *)
(***************************************************************************)
MaxLines == 4        \* lines written to the filter of a one-filter stream
MaxLinesTwo == 2     \* lines written to each of two interleaved filters
MaxCalls == 1        \* facade operations invoked on one facade
MaxChildLines == 1   \* lines a spawned child prints on its stdout

(***************************************************************************)
(* Lines                                                                   *)
(***************************************************************************)
WARN == <<"W", "A", "R", "N">>

ISSUES == <<"I", "s", "s", "u", "e", "s", " ", "w", "i", "t", "h", " ",
            "p", "e", "e", "r", " ", "d", "e", "p", "e", "n", "d", "e", "n",
            "c", "i", "e", "s", " ", "f", "o", "u", "n", "d">>

Yellow == <<"ESC", "[", "3", "3", "m">>

Reset == <<"ESC", "[", "3", "9", "m">>

Empty == << >>

Next4 == <<"n", "e", "x", "t">>

Detail == <<"d", "e", "p", " ", "1", ".", "0">>

Header == WARN \o <<" ", " ">> \o ISSUES

StyledHeader == Yellow \o WARN \o Reset \o <<" ", " ">> \o ISSUES

Lines == {Empty, Next4, Detail, Header, StyledHeader}

LineTerminators == {"\n", "\r"}

Digits == {"0", "1", "2", "3", "4", "5", "6", "7", "8", "9"}

Max(S) == CHOOSE x \in S : \A y \in S : y <= x

Min(S) == CHOOSE x \in S : \A y \in S : x <= y

(***************************************************************************)
(* The pattern `${ansi}WARN${ansi}.*Issues with peer dependencies found`   *)
(***************************************************************************)
\* the literal lit occurs in line at JavaScript index k
LitAt(line, k, lit) ==
    /\ k + Len(lit) <= Len(line)
    /\ \A j \in 1..Len(lit) : line[k + j] = lit[j]

RECURSIVE DigitsEnd(_, _)
DigitsEnd(line, k) ==
    IF k < Len(line) /\ line[k + 1] \in Digits THEN DigitsEnd(line, k + 1) ELSE k

\* ansiRegex().source, for the SGR sequences ESC [ digits m: the index after
\* the escape sequence that starts at index k, or -1 when none starts there
AnsiEnd(line, k) ==
    IF LitAt(line, k, <<"ESC", "[">>)
    THEN LET d == DigitsEnd(line, k + 2)
         IN  IF d < Len(line) /\ line[d + 1] = "m" THEN d + 1 ELSE -1
    ELSE -1

\* (?:ansi)* : the indices reachable from k over zero or more escape sequences
RECURSIVE ansi(_, _)
ansi(line, k) ==
    {k} \cup (IF AnsiEnd(line, k) = -1 THEN {} ELSE ansi(line, AnsiEnd(line, k)))

\* the pattern without its .* : Issues must follow the styling after WARN
MatchesNoGap(line, s) ==
    UNION { { <<a1, a2, a2>> :
              a2 \in { q \in ansi(line, a1 + Len(WARN)) : LitAt(line, q, ISSUES) } } :
            a1 \in { a \in ansi(line, s) : LitAt(line, a, WARN) } }

\* the ways the pattern matches line starting at index s:
\* <<end of first ansi, end of second ansi, start of the Issues literal>>
Matches(line, s) ==
    UNION { UNION { { <<a1, a2, p>> :
                      p \in { q \in a2..Len(line) :
                                /\ LitAt(line, q, ISSUES)
                                /\ \A j \in (a2 + 1)..q : line[j] \notin LineTerminators } } :
                    a2 \in ansi(line, a1 + Len(WARN)) } :
            a1 \in { a \in ansi(line, s) : LitAt(line, a, WARN) } }

\* the end index of the match the backtracking matcher finds first at s:
\* every quantifier is greedy
MatchEnd(line, s) ==
    LET M  == Matches(line, s)
        a1 == Max({t[1] : t \in M})
        a2 == Max({t[2] : t \in {u \in M : u[1] = a1}})
        p  == Max({t[3] : t \in {u \in M : u[1] = a1 /\ u[2] = a2}})
    IN  p + Len(ISSUES)

\* startPnpmPeerDependencyWarningPattern.test(line) with the 'g' flag:
\* the search starts at lastIndex; a match leaves lastIndex at its end,
\* a failure resets lastIndex to 0
startPnpmPeerDependencyWarningPattern(line, li) ==
    LET starts == {s \in li..Len(line) : Matches(line, s) # {}}
    IN  IF li > Len(line) \/ starts = {}
        THEN [matched |-> FALSE, lastIndex |-> 0]
        ELSE [matched |-> TRUE, lastIndex |-> MatchEnd(line, Min(starts))]

\* what the pattern means for a line: a search of the whole line
IsHeader(line) == startPnpmPeerDependencyWarningPattern(line, 0).matched

(***************************************************************************)
(* PnpmStdoutTransform                                                     *)
(***************************************************************************)
\* new PnpmStdoutTransform(): isPeerDepsWarning = false, nothing read or
\* emitted yet.  input, before, output and callbacks record what the
\* instance was given and did: the lines written to it, the value of
\* isPeerDepsWarning when each arrived, the chunks its readable side
\* emitted, whether each line was emitted, and the number of times
\* _transform called its callback.
PnpmStdoutTransform(owner) ==
    [isPeerDepsWarning |-> FALSE, input |-> << >>, before |-> << >>,
     output |-> << >>, emitted |-> << >>, callbacks |-> 0, ended |-> FALSE,
     owner |-> owner]

\* this.push(line) of a stream that is not in object mode: a zero-length
\* chunk adds nothing to the readable side
push(output, line) ==
    IF Len(line) > 0 THEN Append(output, line) ELSE output

\* _transform without the reset on an empty line
TransformNoReset(f, li, line) ==
    LET tested == ~f.isPeerDepsWarning
        t      == startPnpmPeerDependencyWarningPattern(line, li)
        flag   == IF ~f.isPeerDepsWarning /\ t.matched THEN TRUE
                  ELSE f.isPeerDepsWarning
        out    == IF ~flag THEN push(f.output, line) ELSE f.output
    IN  [filter |-> [f EXCEPT !.isPeerDepsWarning = flag,
                              !.input = Append(@, line),
                              !.before = Append(@, f.isPeerDepsWarning),
                              !.output = out,
                              !.emitted = Append(@, Len(out) > Len(f.output)),
                              !.callbacks = @ + 1],
         lastIndex |-> IF tested THEN t.lastIndex ELSE li]

\* _transform in which a header line toggles the flag whatever its value
TransformToggle(f, li, line) ==
    LET t      == startPnpmPeerDependencyWarningPattern(line, li)
        flag   == IF t.matched THEN ~f.isPeerDepsWarning
                  ELSE IF f.isPeerDepsWarning /\ Len(line) = 0 THEN FALSE
                  ELSE f.isPeerDepsWarning
        out    == IF ~flag THEN push(f.output, line) ELSE f.output
    IN  [filter |-> [f EXCEPT !.isPeerDepsWarning = flag,
                              !.input = Append(@, line),
                              !.before = Append(@, f.isPeerDepsWarning),
                              !.output = out,
                              !.emitted = Append(@, Len(out) > Len(f.output)),
                              !.callbacks = @ + 1],
         lastIndex |-> t.lastIndex]

\* _transform(chunk, encoding, callback) on the instance f, with the
\* pattern's lastIndex at li.  test() runs only when isPeerDepsWarning is
\* false (the && short-circuits).
_transform(f, li, line) ==
    LET tested == ~f.isPeerDepsWarning
        t      == startPnpmPeerDependencyWarningPattern(line, li)
        flag   == IF ~f.isPeerDepsWarning /\ t.matched THEN TRUE
                  ELSE IF f.isPeerDepsWarning /\ Len(line) = 0 THEN FALSE
                  ELSE f.isPeerDepsWarning
        out    == IF ~flag THEN push(f.output, line) ELSE f.output
    IN  [filter |-> [f EXCEPT !.isPeerDepsWarning = flag,
                              !.input = Append(@, line),
                              !.before = Append(@, f.isPeerDepsWarning),
                              !.output = out,
                              !.emitted = Append(@, Len(out) > Len(f.output)),
                              !.callbacks = @ + 1],
         lastIndex |-> IF tested THEN t.lastIndex ELSE li]

\* the chunks a fresh instance emits for the lines of input when nothing
\* else uses the pattern
RECURSIVE RunAlone(_, _, _)
RunAlone(f, li, input) ==
    IF input = << >> THEN f.output
    ELSE LET r == _transform(f, li, Head(input))
         IN  RunAlone(r.filter, r.lastIndex, Tail(input))

(***************************************************************************)
(* The facade (constructor)                                                *)
(***************************************************************************)
\* process.env of the parent: it already sets one of the override's keys
ProcessEnv == [PATH |-> "/usr/bin", ADBLOCK |-> "0"]

\* DISABLE_ADS_ENV, imported from ./NodePackageManagers
DISABLE_ADS_ENV == [ADBLOCK |-> "1", DISABLE_OPENCOLLECTIVE |-> "1"]

\* { ...a, ...b }
Spread(a, b) ==
    [k \in DOMAIN a \cup DOMAIN b |-> IF k \in DOMAIN b THEN b[k] ELSE a[k]]

\* Option values are strings; a stdio option is a tuple: empty when the
\* option is absent, of one element for the string form
Undefined == "undefined"

True == "true"

False == "false"

NoStdio == << >>

InheritStdio == <<"inherit", "inherit", "pipe">>

\* new PnpmPackageManager({ cwd, silent, spawner }): this.options, with the
\* silent argument and whether a spawner was injected
PnpmPackageManager(cwd, silent, injected) ==
    [silent |-> silent, injected |-> injected,
     options |-> [env |-> Spread(ProcessEnv, DISABLE_ADS_ENV),
                  cwd |-> cwd,
                  ignoreStdio |-> IF silent THEN True ELSE Undefined,
                  stdio |-> IF silent THEN NoStdio ELSE InheritStdio]]

\* a value that is falsy in a condition
Falsy(v) == v \in {Undefined, "", False}

\* args.join(' ')
RECURSIVE join(_)
join(args) ==
    IF Len(args) = 0 THEN << >>
    ELSE IF Len(args) = 1 THEN <<args[1]>>
    ELSE <<args[1], " ">> \o join(Tail(args))

\* the stdio of the three streams that child_process.spawn derives from
\* the options @expo/spawn-async hands it
Stdio(options) ==
    IF "ignoreStdio" \in DOMAIN options /\ ~Falsy(options.ignoreStdio)
    THEN <<"ignore", "ignore", "ignore">>
    ELSE IF "stdio" \notin DOMAIN options \/ options.stdio = NoStdio
    THEN <<"pipe", "pipe", "pipe">>
    ELSE IF Len(options.stdio) = 1
    THEN <<options.stdio[1], options.stdio[1], options.stdio[1]>>
    ELSE options.stdio

\* promise.child.stdout of the child the spawner returns: the default
\* spawner gives a stream exactly when stdout is piped, an injected one
\* gives what it likes (mock)
ChildStdout(injected, options, mock) ==
    IF injected THEN mock ELSE Stdio(options)[2] = "pipe"

\* A call in progress works on a record st of the things it can change:
\* logged, spawned, events, filters, and call, the record of the call.
NewCall(op, names) ==
    [op |-> op, names |-> names, parameters |-> << >>, state |-> "pending",
     spawn |-> 0, filter |-> 0, printed |-> << >>, result |-> Undefined,
     error |-> Undefined, checked |-> {}, deleted |-> {}]

\* this.log(message)
Log(st, message) ==
    [st EXCEPT !.logged = Append(@, message),
               !.events = Append(@, [type |-> "log", call |-> st.id,
                                     index |-> Len(st.logged) + 1])]

\* this.spawner('pnpm', args, options): the promise is pending, outcome,
\* error and captured are what it settles with
Spawner(st, args, options, mock) ==
    [st EXCEPT !.spawned = Append(@, [command |-> "pnpm", args |-> args,
                                      options |-> options, call |-> st.id,
                                      stdout |-> ChildStdout(st.facade.injected,
                                                             options, mock),
                                      outcome |-> "pending", error |-> Undefined,
                                      captured |-> << >>]),
               !.events = Append(@, [type |-> "spawn", call |-> st.id,
                                     index |-> Len(st.spawned) + 1]),
               !.call.spawn = Len(st.spawned) + 1]

\* a pipeline that reuses the PnpmStdoutTransform already in the module
PipeShared(st) ==
    IF Len(st.filters) > 0
    THEN [st EXCEPT !.call.filter = 1]
    ELSE [st EXCEPT !.filters = Append(@, PnpmStdoutTransform(st.id)),
                    !.call.filter = 1]

\* .pipe(split(...)).pipe(new PnpmStdoutTransform()).pipe(process.stdout)
Pipe(st) ==
    [st EXCEPT !.filters = Append(@, PnpmStdoutTransform(st.id)),
               !.call.filter = Len(st.filters) + 1]

\* _runAsync that echoes the command whatever ignoreStdio is
RunAsyncAlwaysLogs(st, args, mock) ==
    LET options == st.facade.options
        st1 == Log(st, <<"> pnpm ">> \o join(args))
        st2 == Spawner(st1, args, Spread(options, [ignoreStdio |-> False]), mock)
    IN  IF st2.spawned[st2.call.spawn].stdout /\ Falsy(options.ignoreStdio)
        THEN Pipe(st2) ELSE st2

\* _runAsync that echoes the command after it has spawned
RunAsyncLogsLate(st, args, mock) ==
    LET options == st.facade.options
        st1 == Spawner(st, args, Spread(options, [ignoreStdio |-> False]), mock)
        st2 == IF Falsy(options.ignoreStdio)
               THEN Log(st1, <<"> pnpm ">> \o join(args)) ELSE st1
    IN  IF st2.spawned[st2.call.spawn].stdout /\ Falsy(options.ignoreStdio)
        THEN Pipe(st2) ELSE st2

\* _runAsync that writes ignoreStdio: false into this.options and passes
\* this.options itself to the spawner
RunAsyncOverridesStored(st, args, mock) ==
    LET options == st.facade.options
        st1 == IF Falsy(options.ignoreStdio)
               THEN Log(st, <<"> pnpm ">> \o join(args)) ELSE st
        st2 == [st1 EXCEPT !.facade.options = Spread(options, [ignoreStdio |-> False])]
        st3 == Spawner(st2, args, st2.facade.options, mock)
    IN  IF st3.spawned[st3.call.spawn].stdout /\ Falsy(options.ignoreStdio)
        THEN Pipe(st3) ELSE st3

\* private async _runAsync(args), up to the return of the promise
_runAsync(st, args, mock) ==
    LET options == st.facade.options
        st1 == IF Falsy(options.ignoreStdio)
               THEN Log(st, <<"> pnpm ">> \o join(args)) ELSE st
        st2 == Spawner(st1, args, Spread(options, [ignoreStdio |-> False]), mock)
    IN  IF st2.spawned[st2.call.spawn].stdout /\ Falsy(options.ignoreStdio)
        THEN Pipe(st2) ELSE st2

installAsync(st, mock) == _runAsync(st, <<"install">>, mock)

\* addWithParametersAsync that puts the names before the parameters
AddWithParametersNamesFirst(st, names, parameters, mock) ==
    IF Len(names) = 0 THEN installAsync(st, mock)
    ELSE _runAsync(st, <<"add">> \o names \o parameters, mock)

addWithParametersAsync(st, names, parameters, mock) ==
    IF Len(names) = 0 THEN installAsync(st, mock)
    ELSE _runAsync(st, <<"add">> \o parameters \o names, mock)

addAsync(st, names, mock) == addWithParametersAsync(st, names, << >>, mock)

addDevAsync(st, names, mock) ==
    IF Len(names) = 0 THEN installAsync(st, mock)
    ELSE _runAsync(st, <<"add", "--save-dev">> \o names, mock)

\* addGlobalAsync without the check for an empty list of names
AddGlobalNoInstall(st, names, mock) ==
    _runAsync(st, <<"add", "--global">> \o names, mock)

addGlobalAsync(st, names, mock) ==
    IF Len(names) = 0 THEN installAsync(st, mock)
    ELSE _runAsync(st, <<"add", "--global">> \o names, mock)

removeAsync(st, names, mock) == _runAsync(st, <<"remove">> \o names, mock)

versionAsync(st, mock) ==
    Spawner(st, <<"--version">>, [stdio |-> <<"pipe">>], mock)

getConfigAsync(st, key, mock) ==
    Spawner(st, <<"config", "get", key>>, [stdio |-> <<"pipe">>], mock)

\* path.join(cwd, name)
PathJoin(cwd, name) == <<cwd, name>>

\* rimraf.sync that removes everything in the directory of path
RimrafDirectory(files, path) ==
    { f \in files : ~(Len(f) >= 1 /\ SubSeq(f, 1, 1) = SubSeq(path, 1, 1)) }

\* rimraf.sync(path): the path and everything below it
Rimraf(files, path) ==
    { f \in files : ~(Len(f) >= Len(path) /\ SubSeq(f, 1, Len(path)) = path) }

\* removeLockfileAsync / cleanAsync without the assert on this.options.cwd
RemoveUnderCwdNoAssert(st, files, name) ==
    LET path == PathJoin(st.facade.options.cwd, name)
    IN  [st |-> [st EXCEPT !.call.state = "resolved",
                           !.call.checked = {path},
                           !.call.deleted = IF path \in files
                                            THEN files \ Rimraf(files, path)
                                            ELSE {}],
         fs |-> IF path \in files THEN Rimraf(files, path) ELSE files]

\* removeLockfileAsync / cleanAsync on the file system files: the assert
\* on this.options.cwd, then existsSync and rimraf.sync of cwd/name
RemoveUnderCwd(st, files, name) ==
    IF Falsy(st.facade.options.cwd)
    THEN [st |-> [st EXCEPT !.call.state = "rejected",
                            !.call.error = "AssertionError"],
          fs |-> files]
    ELSE LET path == PathJoin(st.facade.options.cwd, name)
         IN  [st |-> [st EXCEPT !.call.state = "resolved",
                                !.call.checked = {path},
                                !.call.deleted = IF path \in files
                                                 THEN files \ Rimraf(files, path)
                                                 ELSE {}],
              fs |-> IF path \in files THEN Rimraf(files, path) ELSE files]

removeLockfileAsync(st, files) == RemoveUnderCwd(st, files, "pnpm-lock.yaml")

cleanAsync(st, files) == RemoveUnderCwd(st, files, "node_modules")

\* String.prototype.trim on a sequence of code units
WhiteSpace == {" ", "\n", "\r", "\t"}

RECURSIVE trimStart(_)
trimStart(str) ==
    IF Len(str) > 0 /\ Head(str) \in WhiteSpace THEN trimStart(Tail(str)) ELSE str

RECURSIVE trimEnd(_)
trimEnd(str) ==
    IF Len(str) > 0 /\ str[Len(str)] \in WhiteSpace
    THEN trimEnd(SubSeq(str, 1, Len(str) - 1)) ELSE str

trim(str) == trimEnd(trimStart(str))

\* what the child wrote on its stdout: each printed line and its newline
RECURSIVE Bytes(_)
Bytes(printed) ==
    IF Len(printed) = 0 THEN << >>
    ELSE Head(printed) \o <<"\n">> \o Bytes(Tail(printed))

(***************************************************************************)
(* A PnpmStdoutTransform written to directly (it is exported for tests)    *)
(***************************************************************************)
\* transform.write(line) on instance i
Write(i, line, max) ==
    /\ ~filters[i].ended
    /\ Len(filters[i].input) < max
    /\ LET r == _transform(filters[i], lastIndex, line)
       IN  /\ filters' = [filters EXCEPT ![i] = r.filter]
           /\ lastIndex' = r.lastIndex
    /\ UNCHANGED facadeVars

\* transform.end() on instance i: the class defines no _flush, so nothing
\* is emitted
End(i) ==
    /\ ~filters[i].ended
    /\ filters' = [filters EXCEPT ![i].ended = TRUE]
    /\ UNCHANGED <<lastIndex, facadeVars>>

InitFacadeIdle ==
    /\ facade = PnpmPackageManager("/proj", FALSE, FALSE)
    /\ calls = << >>
    /\ spawned = << >>
    /\ logged = << >>
    /\ events = << >>
    /\ stdout = << >>
    /\ fs = {}

\* one instance, fed a stream of lines
InitFilter ==
    /\ lastIndex = 0
    /\ filters = <<PnpmStdoutTransform(0)>>
    /\ InitFacadeIdle

NextFilter ==
    \/ \E line \in Lines : Write(1, line, MaxLines)
    \/ End(1)

SpecFilter == InitFilter /\ [][NextFilter]_vars

\* two instances in the same module, their line events interleaved
InitTwo ==
    /\ lastIndex = 0
    /\ filters = <<PnpmStdoutTransform(0), PnpmStdoutTransform(0)>>
    /\ InitFacadeIdle

NextTwo ==
    \/ \E i \in {1, 2} : \E line \in Lines : Write(i, line, MaxLinesTwo)
    \/ \E i \in {1, 2} : End(i)

SpecTwo == InitTwo /\ [][NextTwo]_vars

(***************************************************************************)
(* The facade in use: operations, children and their output                *)
(***************************************************************************)
Names == {<< >>, <<"foo", "bar">>}

Parameters == {<<"--save-exact">>}

Keys == {"registry"}

\* the facades considered: every combination of silent and injected
\* spawner with a cwd, and one whose cwd is empty
Facades ==
    {PnpmPackageManager("/proj", silent, injected) :
        silent \in BOOLEAN, injected \in BOOLEAN}

ChildLines == {Header, Next4}

InitialFiles ==
    {<<"/proj", "pnpm-lock.yaml">>, <<"/proj", "node_modules">>,
     <<"/proj", "node_modules", "foo">>, <<"/proj", "package.json">>}

\* what an injected spawner may return as child.stdout
Mocks == IF facade.injected THEN BOOLEAN ELSE {FALSE}

\* the state a new call of op starts from
St(op, names) ==
    [id |-> Len(calls) + 1, facade |-> facade, logged |-> logged,
     spawned |-> spawned, events |-> events, filters |-> filters,
     call |-> NewCall(op, names)]

\* the call has run up to its first await; max bounds the calls made
Started(st, max) ==
    /\ Len(calls) < max
    /\ logged' = st.logged
    /\ spawned' = st.spawned
    /\ events' = st.events
    /\ filters' = st.filters
    /\ calls' = Append(calls, st.call)
    /\ facade' = st.facade
    /\ UNCHANGED <<lastIndex, stdout, fs>>

Install(max) ==
    \E mock \in Mocks : Started(installAsync(St("install", << >>), mock), max)

AddWithParameters(names, parameters, max) ==
    \E mock \in Mocks :
        Started(addWithParametersAsync(
                    [St("addWithParameters", names) EXCEPT
                         !.call.parameters = parameters],
                    names, parameters, mock), max)

Add(names, max) ==
    \E mock \in Mocks : Started(addAsync(St("add", names), names, mock), max)

AddDev(names, max) ==
    \E mock \in Mocks : Started(addDevAsync(St("addDev", names), names, mock), max)

AddGlobal(names, max) ==
    \E mock \in Mocks : Started(addGlobalAsync(St("addGlobal", names), names, mock), max)

Remove(names, max) ==
    \E mock \in Mocks : Started(removeAsync(St("remove", names), names, mock), max)

Version(max) ==
    \E mock \in Mocks : Started(versionAsync(St("version", << >>), mock), max)

GetConfig(key, max) ==
    \E mock \in Mocks : Started(getConfigAsync(St("getConfig", <<key>>), key, mock), max)

\* removeLockfileAsync and cleanAsync have no await: they run to the end
Removed(r, max) ==
    /\ Len(calls) < max
    /\ calls' = Append(calls, r.st.call)
    /\ fs' = r.fs
    /\ facade' = r.st.facade
    /\ UNCHANGED <<lastIndex, filters, spawned, logged, events, stdout>>

RemoveLockfile(max) == Removed(removeLockfileAsync(St("removeLockfile", << >>), fs), max)

Clean(max) == Removed(cleanAsync(St("clean", << >>), fs), max)

\* the mapper of split(/\r?\n/, (line) => line + '\n')
split(line) == line \o <<"\n">>

\* a chunk arrives at the PnpmStdoutTransform of call c; what it pushes is
\* piped to process.stdout
Piped(c, chunk) ==
    LET fi == calls[c].filter
        r  == _transform(filters[fi], lastIndex, chunk)
    IN  /\ filters' = [filters EXCEPT ![fi] = r.filter]
        /\ lastIndex' = r.lastIndex
        /\ stdout' = IF Len(r.filter.output) > Len(filters[fi].output)
                     THEN Append(stdout, [chunk |-> chunk, via |-> "filter", call |-> c])
                     ELSE stdout

\* the child of call c prints a line on its stdout
ChildPrint(c, line, max) ==
    /\ calls[c].state = "pending"
    /\ calls[c].spawn # 0
    /\ Len(calls[c].printed) < max
    /\ calls' = [calls EXCEPT ![c].printed = Append(@, line)]
    /\ IF calls[c].filter # 0
       THEN Piped(c, split(line))
       ELSE /\ stdout' = IF /\ ~facade.injected
                            /\ Stdio(spawned[calls[c].spawn].options)[2] = "inherit"
                         THEN Append(stdout, [chunk |-> line \o <<"\n">>,
                                              via |-> "inherit", call |-> c])
                         ELSE stdout
            /\ UNCHANGED <<lastIndex, filters>>
    /\ UNCHANGED <<facade, spawned, logged, events, fs>>

\* an operation that catches the rejection of its spawner call
SettledSwallowsFailure(call, promise) ==
    [call EXCEPT !.state = "resolved",
                 !.result = IF call.op \in {"version", "getConfig"}
                            THEN trim(promise.captured) ELSE Undefined]

\* an operation whose version and config values keep leading white space
SettledTrimsEndOnly(call, promise) ==
    IF promise.outcome = "rejected"
    THEN [call EXCEPT !.state = "rejected", !.error = promise.error]
    ELSE [call EXCEPT !.state = "resolved",
                      !.result = IF call.op \in {"version", "getConfig"}
                                 THEN trimEnd(promise.captured) ELSE Undefined]

\* the await of the spawner's promise in the operation of call: a
\* rejection is thrown on to the caller; versionAsync and getConfigAsync
\* return stdout.trim(), the others nothing
Settled(call, promise) ==
    IF promise.outcome = "rejected"
    THEN [call EXCEPT !.state = "rejected", !.error = promise.error]
    ELSE [call EXCEPT !.state = "resolved",
                      !.result = IF call.op \in {"version", "getConfig"}
                                 THEN trim(promise.captured) ELSE Undefined]

\* the child of call c exits: its stdout ends (split emits the piece after
\* the last line break, the pipeline ends) and the spawner's promise
\* settles, and with it the operation that awaits it
ChildExit(c, ok) ==
    /\ calls[c].state = "pending"
    /\ calls[c].spawn # 0
    /\ LET promise == [spawned[calls[c].spawn] EXCEPT
                           !.outcome = IF ok THEN "resolved" ELSE "rejected",
                           !.error = IF ok THEN Undefined ELSE "SpawnError",
                           !.captured = IF spawned[calls[c].spawn].stdout
                                        THEN Bytes(calls[c].printed) ELSE << >>]
       IN  /\ spawned' = [spawned EXCEPT ![calls[c].spawn] = promise]
           /\ calls' = [calls EXCEPT ![c] = Settled(calls[c], promise)]
    /\ IF calls[c].filter # 0
       THEN LET fi == calls[c].filter
                r  == _transform(filters[fi], lastIndex, split(Empty))
            IN  /\ filters' = [filters EXCEPT ![fi] = [r.filter EXCEPT !.ended = TRUE]]
                /\ lastIndex' = r.lastIndex
                /\ stdout' = IF Len(r.filter.output) > Len(filters[fi].output)
                             THEN Append(stdout, [chunk |-> split(Empty),
                                                  via |-> "filter", call |-> c])
                             ELSE stdout
       ELSE UNCHANGED <<lastIndex, filters, stdout>>
    /\ UNCHANGED <<facade, logged, events, fs>>

Init ==
    /\ lastIndex = 0
    /\ filters = << >>
    /\ facade \in Facades
    /\ calls = << >>
    /\ spawned = << >>
    /\ logged = << >>
    /\ events = << >>
    /\ stdout = << >>
    /\ fs = InitialFiles

Next ==
    \/ Install(MaxCalls)
    \/ \E names \in Names : Add(names, MaxCalls)
    \/ \E names \in Names : \E parameters \in Parameters :
           AddWithParameters(names, parameters, MaxCalls)
    \/ \E names \in Names : AddDev(names, MaxCalls)
    \/ \E names \in Names : AddGlobal(names, MaxCalls)
    \/ \E names \in Names : Remove(names, MaxCalls)
    \/ Version(MaxCalls)
    \/ \E key \in Keys : GetConfig(key, MaxCalls)
    \/ RemoveLockfile(MaxCalls)
    \/ Clean(MaxCalls)
    \/ \E c \in DOMAIN calls : \E line \in ChildLines : ChildPrint(c, line, MaxChildLines)
    \/ \E c \in DOMAIN calls : \E ok \in BOOLEAN : ChildExit(c, ok)

Spec == Init /\ [][Next]_vars

(***************************************************************************)
(* Properties of one PnpmStdoutTransform                                   *)
(***************************************************************************)
\* isPeerDepsWarning of f after its k-th line
After(f, k) ==
    IF k < Len(f.input) THEN f.before[k + 1] ELSE f.isPeerDepsWarning

\* no empty line among lines a..b of f's input
NoEmpty(f, a, b) == \A m \in a..b : f.input[m] # Empty

\* C1: every header line that arrives while the filter is Passing moves it
\* to Suppressing and is not forwarded, for the first and for every later
\* block; neither the header nor any line up to and including the
\* terminating empty line is emitted.
C1_HeaderStartsSuppression ==
    \A i \in DOMAIN filters :
        LET f == filters[i]
        IN  \A k \in 1..Len(f.input) :
                (IsHeader(f.input[k]) /\ ~f.before[k]) =>
                    /\ After(f, k)
                    /\ \A j \in k..Len(f.input) :
                           NoEmpty(f, k + 1, j - 1) => ~f.emitted[j]

\* C4: an empty line that arrives while the filter is Suppressing emits
\* nothing and resets the flag, and a following line that is no header is
\* forwarded.
C4_EmptyLineEndsBlock ==
    \A i \in DOMAIN filters :
        LET f == filters[i]
        IN  \A k \in 1..Len(f.input) :
                (f.before[k] /\ f.input[k] = Empty) =>
                    /\ ~f.emitted[k]
                    /\ ~After(f, k)
                    /\ (k < Len(f.input) /\ f.input[k + 1] # Empty
                          /\ ~IsHeader(f.input[k + 1])) =>
                           /\ f.emitted[k + 1]
                           /\ f.output[Len(SelectSeq(SubSeq(f.emitted, 1, k + 1),
                                                     LAMBDA e : e))]
                                = f.input[k + 1]

C4_Witness ==
    /\ filters[1].input = <<Header, Detail, Empty, Next4>>
    /\ filters[1].output = <<Next4>>

\* the lines of f's input, from the k-th on, that arrive while f is Passing,
\* do not match the header pattern and carry data
RECURSIVE PassingNonHeaders(_, _)
PassingNonHeaders(f, k) ==
    IF k > Len(f.input) THEN << >>
    ELSE (IF ~f.before[k] /\ ~IsHeader(f.input[k]) /\ f.input[k] # Empty
          THEN <<f.input[k]>> ELSE << >>) \o PassingNonHeaders(f, k + 1)

\* C5: the filter forwards exactly the lines that arrive while it is Passing
\* and do not match the header pattern, unchanged, once each, in input order.
C5_ForwardsExactlyPassingNonHeaders ==
    \A i \in DOMAIN filters :
        filters[i].output = PassingNonHeaders(filters[i], 1)

C7_EndsMidBlock ==
    \A i \in DOMAIN filters :
        LET f == filters[i]
        IN  /\ f.callbacks = Len(f.input)
            /\ f.ended =>
                   \A k \in 1..Len(f.input) :
                       (IsHeader(f.input[k]) /\ NoEmpty(f, k + 1, Len(f.input))) =>
                           \A j \in k..Len(f.input) : ~f.emitted[j]

(***************************************************************************)
(* Properties of two PnpmStdoutTransform instances                         *)
(***************************************************************************)
\* C2: whatever the interleaving, each instance forwards what it forwards
\* when its stream is processed alone.
C2_InstancesIndependent ==
    \A i \in DOMAIN filters :
        filters[i].output = RunAlone(PnpmStdoutTransform(0), 0, filters[i].input)

(***************************************************************************)
(* Properties of the facade                                                *)
(***************************************************************************)
\* the operations that spawn through _runAsync
RunOps == {"install", "add", "addWithParameters", "addDev", "addGlobal", "remove"}

\* C3: on a facade constructed without silent, every operation that runs
\* through _runAsync has a PnpmStdoutTransform attached to its child's
\* stdout, and whatever of the child's output reaches the parent's stdout
\* came through it.
C3_FilterAttachedWhenNotSilent ==
    ~facade.silent =>
        \A c \in DOMAIN calls :
            calls[c].op \in RunOps =>
                /\ calls[c].filter # 0
                /\ \A k \in DOMAIN stdout :
                       stdout[k].call = c => stdout[k].via = "filter"

\* C8: on a facade constructed with silent: true the Logger is never
\* called, no PnpmStdoutTransform is ever created, and nothing is written
\* to the parent's stdout.
C8_SilentNeverLogsNorFilters ==
    facade.silent =>
        /\ logged = << >>
        /\ \A k \in DOMAIN events : events[k].type # "log"
        /\ filters = << >>
        /\ \A c \in DOMAIN calls : calls[c].filter = 0
        /\ stdout = << >>

C8_Witness ==
    /\ facade.silent
    /\ \E c \in DOMAIN calls :
           /\ calls[c].op = "install"
           /\ calls[c].state = "resolved"
           /\ calls[c].printed = <<Header>>
           /\ spawned[calls[c].spawn].stdout

\* C9: every spawned process gets the configured cwd and an environment
\* that is the parent's with the ad-disabling override on top.
C9_SpawnedWithCwdAndEnv ==
    \A j \in DOMAIN spawned :
        LET o == spawned[j].options
        IN  /\ "cwd" \in DOMAIN o
            /\ o.cwd = facade.options.cwd
            /\ "env" \in DOMAIN o
            /\ DOMAIN o.env = DOMAIN ProcessEnv \cup DOMAIN DISABLE_ADS_ENV
            /\ \A k \in DOMAIN DISABLE_ADS_ENV : o.env[k] = DISABLE_ADS_ENV[k]
            /\ \A k \in DOMAIN ProcessEnv \ DOMAIN DISABLE_ADS_ENV :
                   o.env[k] = ProcessEnv[k]

\* C10: on a facade that is not silent, every spawn made through _runAsync
\* is immediately preceded by the one Logger call of its operation, whose
\* message is the command line: pnpm and the arguments joined by spaces.
C10_LogsOnceBeforeSpawn ==
    ~facade.silent =>
        \A c \in DOMAIN calls :
            calls[c].op \in RunOps =>
                LET logs   == {k \in DOMAIN events :
                                 events[k].call = c /\ events[k].type = "log"}
                    spawns == {k \in DOMAIN events :
                                 events[k].call = c /\ events[k].type = "spawn"}
                IN  /\ Cardinality(logs) = 1
                    /\ Cardinality(spawns) = 1
                    /\ \A k \in spawns :
                           /\ k - 1 \in logs
                           /\ logged[events[k - 1].index]
                                = <<"> pnpm ">> \o join(spawned[events[k].index].args)

C10_Witness ==
    /\ ~facade.silent
    /\ \E c \in DOMAIN calls :
           /\ calls[c].op = "addDev"
           /\ calls[c].names = << >>
           /\ logged = <<<<"> pnpm ", "install">>>>
           /\ Len(spawned) = 1

\* C11: an operation settles as the promise of its one spawner call does:
\* pending while it is pending, rejected with the same failure when it
\* rejects, resolved when it resolves; there is no second spawn, and the
\* state of the PnpmStdoutTransform plays no part.
C11_OutcomePropagates ==
    \A c \in DOMAIN calls :
        calls[c].spawn # 0 =>
            LET promise == spawned[calls[c].spawn]
            IN  /\ Cardinality({j \in DOMAIN spawned : spawned[j].call = c}) = 1
                /\ Cardinality({k \in DOMAIN events :
                                  events[k].call = c /\ events[k].type = "spawn"}) = 1
                /\ promise.outcome = "pending" => calls[c].state = "pending"
                /\ promise.outcome = "rejected" =>
                       /\ calls[c].state = "rejected"
                       /\ calls[c].error = promise.error
                       /\ calls[c].error # Undefined
                /\ promise.outcome = "resolved" =>
                       /\ calls[c].state = "resolved"
                       /\ calls[c].error = Undefined

C11_Witness ==
    \E c \in DOMAIN calls :
        /\ calls[c].filter # 0
        /\ filters[calls[c].filter].isPeerDepsWarning
        /\ calls[c].printed = <<Header>>
        /\ calls[c].state = "rejected"
        /\ calls[c].error = "SpawnError"

(***************************************************************************)
(* removeLockfileAsync and cleanAsync on varying file systems              *)
(***************************************************************************)
FileFacades ==
    Facades \cup {PnpmPackageManager("", FALSE, FALSE),
                  PnpmPackageManager(Undefined, FALSE, FALSE)}

\* a directory exists when something in it does
FileSystems ==
    { S \in SUBSET InitialFiles :
        <<"/proj", "node_modules", "foo">> \in S => <<"/proj", "node_modules">> \in S }

InitFiles ==
    /\ lastIndex = 0
    /\ filters = << >>
    /\ facade \in FileFacades
    /\ calls = << >>
    /\ spawned = << >>
    /\ logged = << >>
    /\ events = << >>
    /\ stdout = << >>
    /\ fs \in FileSystems

NextFiles ==
    \/ RemoveLockfile(MaxCalls)
    \/ Clean(MaxCalls)
SpecFiles == InitFiles /\ [][NextFiles]_vars

FileOps == {"removeLockfile", "clean"}

\* the name under cwd that the operation removes
FileOf(op) == IF op = "removeLockfile" THEN "pnpm-lock.yaml" ELSE "node_modules"

\* the call that a step has added
Invoked == calls'[Len(calls')]

\* C12: on a facade whose cwd is absent or empty, removeLockfile and clean
\* fail with the precondition error, check and delete no path, and spawn
\* no process.
C12_NoCwdFailsBeforeFileAccess ==
    [][(Falsy(facade.options.cwd) /\ Len(calls') = Len(calls) + 1
          /\ Invoked.op \in FileOps) =>
           /\ Invoked.state = "rejected"
           /\ Invoked.error = "AssertionError"
           /\ Invoked.checked = {}
           /\ Invoked.deleted = {}
           /\ Invoked.spawn = 0
           /\ fs' = fs
           /\ spawned' = spawned]_vars

C12_Witness ==
    /\ Falsy(facade.options.cwd)
    /\ <<"/proj", "pnpm-lock.yaml">> \in fs
    /\ \E c \in DOMAIN calls :
           /\ calls[c].op = "removeLockfile"
           /\ calls[c].state = "rejected"
           /\ calls[c].error = "AssertionError"

\* C13: with cwd set, removeLockfile and clean complete without error;
\* they leave the file system as it is when their path under cwd does not
\* exist, and otherwise remove that path (with what is below it) and
\* nothing else; they spawn nothing and do not call the Logger.
C13_RemovesOnlyItsPath ==
    [][(~Falsy(facade.options.cwd) /\ Len(calls') = Len(calls) + 1
          /\ Invoked.op \in FileOps) =>
           LET path  == <<facade.options.cwd, FileOf(Invoked.op)>>
               below == { f \in fs : Len(f) >= 2 /\ f[1] = path[1] /\ f[2] = path[2] }
           IN  /\ Invoked.state = "resolved"
               /\ Invoked.error = Undefined
               /\ path \notin fs => fs' = fs
               /\ path \in fs => (fs' = fs \ below /\ path \notin fs')
               /\ spawned' = spawned
               /\ logged' = logged
               /\ events' = events]_vars

C13_Witness ==
    /\ facade.options.cwd = "/proj"
    /\ fs = {<<"/proj", "pnpm-lock.yaml">>, <<"/proj", "package.json">>}
    /\ \E c \in DOMAIN calls :
           /\ calls[c].op = "clean"
           /\ calls[c].state = "resolved"
           /\ calls[c].deleted = {<<"/proj", "node_modules">>,
                                  <<"/proj", "node_modules", "foo">>}

(***************************************************************************)
(* The argument vectors                                                    *)
(***************************************************************************)
AddOps == {"add", "addWithParameters", "addDev", "addGlobal"}

\* the spawner calls made for call c
SpawnedBy(c) == {j \in DOMAIN spawned : spawned[j].call = c}

\* C14: add, addWithParameters, addDev and addGlobal with no names spawn
\* exactly one process, with the arguments of install, and no add command.
C14_EmptyNamesInstall ==
    \A c \in DOMAIN calls :
        (calls[c].op \in AddOps /\ calls[c].names = << >>) =>
            /\ Cardinality(SpawnedBy(c)) = 1
            /\ \A j \in SpawnedBy(c) :
                   /\ spawned[j].command = "pnpm"
                   /\ spawned[j].args = <<"install">>
                   /\ "add" \notin {spawned[j].args[k] : k \in DOMAIN spawned[j].args}

C14_Witness ==
    \E c \in DOMAIN calls :
        /\ calls[c].op = "addGlobal"
        /\ calls[c].names = << >>
        /\ Len(spawned) = 1
        /\ spawned[1].args = <<"install">>

\* the flags the operation puts between the command and the names
FlagsOf(call) ==
    IF call.op = "addDev" THEN <<"--save-dev">>
    ELSE IF call.op = "addGlobal" THEN <<"--global">>
    ELSE IF call.op = "addWithParameters" THEN call.parameters
    ELSE << >>

\* C15: with names, the add operations spawn add, then their flags or
\* parameters, then the names in the order given; remove spawns remove
\* and the names, also when there are none.
C15_ArgumentVectors ==
    \A c \in DOMAIN calls :
        LET call == calls[c]
            args == spawned[call.spawn].args
            n    == Len(args) - Len(call.names)
        IN  /\ (call.op \in AddOps /\ call.names # << >>) =>
                   /\ Cardinality(SpawnedBy(c)) = 1
                   /\ n >= 1
                   /\ args[1] = "add"
                   /\ SubSeq(args, 2, n) = FlagsOf(call)
                   /\ SubSeq(args, n + 1, Len(args)) = call.names
            /\ call.op = "remove" =>
                   /\ Cardinality(SpawnedBy(c)) = 1
                   /\ args = <<"remove">> \o call.names

C15_Witness ==
    \E c \in DOMAIN calls :
        /\ calls[c].op = "addWithParameters"
        /\ calls[c].names = <<"foo", "bar">>
        /\ calls[c].parameters = <<"--save-exact">>
        /\ spawned[calls[c].spawn].args = <<"add", "--save-exact", "foo", "bar">>

(***************************************************************************)
(* versionAsync and getConfigAsync on children that print white space      *)
(***************************************************************************)
Version86 == <<"8", ".", "6">>

CapturedLines ==
    {<<" ">> \o Version86, Version86 \o <<"\t">>, Empty, <<"a", " ", "b">>}

NextCaptured ==
    \/ Version(MaxCalls)
    \/ \E key \in Keys : GetConfig(key, MaxCalls)
    \/ \E c \in DOMAIN calls : \E line \in CapturedLines :
           ChildPrint(c, line, MaxChildLines)
    \/ \E c \in DOMAIN calls : \E ok \in BOOLEAN : ChildExit(c, ok)

SpecCaptured == Init /\ [][NextCaptured]_vars

CapturedOps == {"version", "getConfig"}

\* str is text with all white space at its two ends removed
Stripped(str, text) ==
    /\ str # << >> => (str[1] \notin WhiteSpace /\ str[Len(str)] \notin WhiteSpace)
    /\ \E i \in 1..(Len(text) + 1) : \E j \in 0..Len(text) :
           /\ str = SubSeq(text, i, j)
           /\ \A k \in 1..(i - 1) : text[k] \in WhiteSpace
           /\ \A k \in (j + 1)..Len(text) : text[k] \in WhiteSpace

\* C16: version and getConfig, on any facade, spawn --version resp.
\* config get key with piped stdio, log nothing, attach no
\* PnpmStdoutTransform, forward nothing, and return the captured stdout
\* without its leading and trailing white space.
C16_CapturedAndTrimmed ==
    \A c \in DOMAIN calls :
        calls[c].op \in CapturedOps =>
            LET promise == spawned[calls[c].spawn]
            IN  /\ promise.args = IF calls[c].op = "version" THEN <<"--version">>
                                  ELSE <<"config", "get">> \o calls[c].names
                /\ Stdio(promise.options) = <<"pipe", "pipe", "pipe">>
                /\ \A k \in DOMAIN events :
                       events[k].call = c => events[k].type = "spawn"
                /\ calls[c].filter = 0
                /\ \A i \in DOMAIN filters : filters[i].owner # c
                /\ \A k \in DOMAIN stdout : stdout[k].call # c
                /\ calls[c].state = "resolved" =>
                       Stripped(calls[c].result, promise.captured)

C16_Witness ==
    /\ facade.silent
    /\ \E c \in DOMAIN calls :
           /\ calls[c].op = "version"
           /\ calls[c].state = "resolved"
           /\ calls[c].printed = <<<<" ">> \o Version86>>
           /\ calls[c].result = Version86

(***************************************************************************)
(* The pipeline of _runAsync on a child that prints blank lines            *)
(***************************************************************************)
MaxPipeLines == 3

PipeLines == {Header, Empty, Next4}

\* a facade whose spawner hands back a child with a stdout stream
PipeFacades == {PnpmPackageManager("/proj", FALSE, TRUE)}

InitPipe ==
    /\ lastIndex = 0
    /\ filters = << >>
    /\ facade \in PipeFacades
    /\ calls = << >>
    /\ spawned = << >>
    /\ logged = << >>
    /\ events = << >>
    /\ stdout = << >>
    /\ fs = InitialFiles

NextPipe ==
    \/ Install(MaxCalls)
    \/ \E c \in DOMAIN calls : \E line \in PipeLines : ChildPrint(c, line, MaxPipeLines)
    \/ \E c \in DOMAIN calls : ChildExit(c, TRUE)

SpecPipe == InitPipe /\ [][NextPipe]_vars

\* the blank lines the child of call c printed while its filter suppressed
BlankWhileSuppressing(c) ==
    {b \in DOMAIN calls[c].printed :
        /\ calls[c].printed[b] = Empty
        /\ filters[calls[c].filter].before[b]}

\* the chunks of call c that reached process.stdout
Reached(c) == {stdout[k].chunk : k \in {m \in DOMAIN stdout : stdout[m].call = c}}

\* C17: once the child of a piped _runAsync call has exited, every line it
\* printed after the first blank line of a suppressed block (and before any
\* later header) has reached process.stdout.
C17_BlockEndsAtBlankLine ==
    \A c \in DOMAIN calls :
        (calls[c].filter # 0 /\ calls[c].state # "pending"
                             /\ BlankWhileSuppressing(c) # {}) =>
            LET b == Min(BlankWhileSuppressing(c))
            IN  \A k \in (b + 1)..Len(calls[c].printed) :
                    (\A m \in (b + 1)..k : ~IsHeader(calls[c].printed[m])) =>
                        split(calls[c].printed[k]) \in Reached(c)

(***************************************************************************)
(* The header pattern on styled lines                                      *)
(***************************************************************************)
MaxPatternLines == 3

Bold == <<"ESC", "[", "1", "m">>

InsideWarn == <<"W", "A">> \o Bold \o <<"R", "N", " ", " ">> \o ISSUES

InsideIssues ==
    WARN \o <<" ", " ">> \o SubSeq(ISSUES, 1, 6) \o Bold \o SubSeq(ISSUES, 7, Len(ISSUES))

StyledBetween == WARN \o <<" ">> \o Yellow \o <<"x">> \o Reset \o <<" ">> \o ISSUES

Reversed == ISSUES \o <<" ">> \o WARN

CarriageReturn == WARN \o <<"\r">> \o ISSUES

Doubled == Header \o <<" ">> \o Header

PatternLines ==
    {Empty, Header, StyledHeader, InsideWarn, InsideIssues, StyledBetween,
     Reversed, CarriageReturn, Doubled}

NextPattern ==
    \/ \E line \in PatternLines : Write(1, line, MaxPatternLines)
    \/ End(1)

SpecPattern == InitFilter /\ [][NextPattern]_vars

\* line from index k on, with every styling escape sequence deleted
RECURSIVE Strip(_, _)
Strip(line, k) ==
    IF k >= Len(line) THEN << >>
    ELSE IF AnsiEnd(line, k) # -1 THEN Strip(line, AnsiEnd(line, k))
    ELSE <<line[k + 1]>> \o Strip(line, k + 1)

\* text contains WARN followed later by Issues with peer dependencies found
InOrder(text) ==
    \E a \in 0..Len(text) : \E p \in (a + Len(WARN))..Len(text) :
        LitAt(text, a, WARN) /\ LitAt(text, p, ISSUES)

\* line contains, from index li on, the literal WARN followed later, with no
\* line terminator in between, by the literal Issues with peer ... found
LiteralHeaderFrom(line, li) ==
    \E a \in li..Len(line) : \E p \in (a + Len(WARN))..Len(line) :
        /\ LitAt(line, a, WARN)
        /\ LitAt(line, p, ISSUES)
        /\ \A j \in (a + Len(WARN) + 1)..p : line[j] \notin LineTerminators

\* instance i is given a line while it is not suppressing
Tested(i) ==
    /\ i \in DOMAIN filters'
    /\ Len(filters'[i].input) = Len(filters[i].input) + 1
    /\ ~filters[i].isPeerDepsWarning

Given(i) == filters'[i].input[Len(filters'[i].input)]

MaxMixedLines == 2

MixedLines == {Header, Empty}

InitMixed ==
    /\ lastIndex = 0
    /\ filters = <<PnpmStdoutTransform(0)>>
    /\ facade \in PipeFacades
    /\ calls = << >>
    /\ spawned = << >>
    /\ logged = << >>
    /\ events = << >>
    /\ stdout = << >>
    /\ fs = InitialFiles

NextMixed ==
    \/ \E line \in MixedLines : Write(1, line, MaxMixedLines)
    \/ End(1)
    \/ Install(MaxCalls)
    \/ Clean(MaxCalls)
    \/ \E c \in DOMAIN calls : \E line \in ChildLines : ChildPrint(c, line, MaxChildLines)
    \/ \E c \in DOMAIN calls : ChildExit(c, TRUE)

SpecMixed == InitMixed /\ [][NextMixed]_vars

MaxLaterCalls == 2

LaterFacades ==
    {PnpmPackageManager("/proj", TRUE, FALSE), PnpmPackageManager("/proj", TRUE, TRUE),
     PnpmPackageManager("/proj", FALSE, FALSE)}

InitLater ==
    /\ lastIndex = 0
    /\ filters = << >>
    /\ facade \in LaterFacades
    /\ calls = << >>
    /\ spawned = << >>
    /\ logged = << >>
    /\ events = << >>
    /\ stdout = << >>
    /\ fs = InitialFiles

NextLater ==
    \/ Install(MaxLaterCalls)
    \/ Version(MaxLaterCalls)
    \/ Clean(MaxLaterCalls)
    \/ \E c \in DOMAIN calls : \E ok \in BOOLEAN : ChildExit(c, ok)

SpecLater == InitLater /\ [][NextLater]_vars

\* C20: no step changes the facade: its options stay the value the
\* constructor built; a _runAsync call hands the spawner a copy of them
\* whose ignoreStdio alone differs (false); and on a silent facade no call,
\* the first or a later one, logs or attaches a PnpmStdoutTransform.
C20_OptionsNeverMutated ==
    [][/\ facade' = facade
       /\ facade' = PnpmPackageManager(facade'.options.cwd, facade'.silent, facade'.injected)
       /\ \A k \in DOMAIN spawned' \ DOMAIN spawned :
              calls'[spawned'[k].call].op \in RunOps =>
                  spawned'[k].options = [facade.options EXCEPT !.ignoreStdio = False]
       /\ facade.silent => (logged' = logged /\ filters' = filters)]_vars

C20_Witness ==
    /\ facade.silent
    /\ facade.options.ignoreStdio = True
    /\ Len(calls) = 2
    /\ calls[1].op = "install" /\ calls[1].state = "rejected"
    /\ spawned[calls[1].spawn].options.ignoreStdio = False
    /\ calls[2].op = "install" /\ calls[2].spawn # 0
    /\ logged = << >>
    /\ filters = << >>

====
